---- MODULE Spec2Model ----
(***************************************************************************)
(* bevy_diagnostic_renet: RenetDiagnosticsPlugin (src/src/lib.rs).         *)
(*                                                                         *)
(* The plugin owns RenetDiagnosticsState (added_client_ids) and talks to   *)
(* bevy's Diagnostics resource through two calls, add (register a series)  *)
(* and add_measurement (push a sample).  The model keeps the catalog of    *)
(* registered series and the stream of calls each step issues.             *)
(*                                                                         *)
(* u128 / u64 values are sequences of base-10^9 limbs, most significant    *)
(* first: three digit groups of the source literal per limb                *)
(* (41_598_154_451_... is <<41, 598154451, ...>>).                         *)
(***************************************************************************)
EXTENDS Integers, Sequences, FiniteSets, TLC

VARIABLES
    phase,              \* "build" until the startup stage has run, then "running"
    client,             \* Option<Res<RenetClient>>: None or Some(its network_info())
    server,             \* Option<Res<RenetServer>>: None or Some(<<[id, info], ...>>)
    added_client_ids,   \* RenetDiagnosticsState.added_client_ids
    diagnostics,        \* Diagnostics catalog: DiagnosticId -> [name, max_history_length]
    calls,              \* calls issued to Diagnostics by the last step, in order
    last,               \* what the last step was and which systems it ran
    panicked,           \* an arithmetic-overflow panic aborted the app
    probe               \* (SpecIds only) a pair of derived identifiers

vars == <<phase, client, server, added_client_ids, diagnostics, calls, last,
          panicked, probe>>

\* Option<T>: None is the empty sequence, Some(x) the sequence of x alone
None == <<>>
Some(x) == <<x>>
Unwrap(o) == o[1]

-----------------------------------------------------------------------------
(* Bounds of the model.                                                    *)

\* most clients the server lists at once
MaxClients == 2

-----------------------------------------------------------------------------
(* Unsigned integers as base-10^9 limbs.                                   *)

Radix == 1000000000
RadixDigits == 9
U128Limbs == 5
U64Limbs == 3

\* 2^128 and 2^64 - 1
TwoPow128 == <<340, 282366920, 938463463, 374607431, 768211456>>
U64Max == <<18, 446744073, 709551615>>

Zeros(n) == [i \in 1..n |-> 0]

RECURSIVE LimbsLess(_, _, _)
\* a < b, for limb sequences of equal length, compared from limb i on
LimbsLess(a, b, i) ==
    IF i > Len(a) THEN FALSE
    ELSE IF a[i] # b[i] THEN a[i] < b[i]
    ELSE LimbsLess(a, b, i + 1)

RECURSIVE AddFrom(_, _, _)
\* <<carry out, limbs i..n of a + b>>
AddFrom(a, b, i) ==
    IF i > Len(a) THEN <<0>>
    ELSE LET rest == AddFrom(a, b, i + 1)
             s == a[i] + b[i] + rest[1]
         IN  <<s \div Radix, s % Radix>> \o Tail(rest)

RECURSIVE SubFrom(_, _, _)
\* <<borrow out, limbs i..n of a - b>>
SubFrom(a, b, i) ==
    IF i > Len(a) THEN <<0>>
    ELSE LET rest == SubFrom(a, b, i + 1)
             d == a[i] - b[i] - rest[1]
         IN  IF d < 0 THEN <<1, d + Radix>> \o Tail(rest)
                      ELSE <<0, d>> \o Tail(rest)

\* u128::from(u64): zero extension
u128_from(client_id) == Zeros(U128Limbs - U64Limbs) \o client_id

\* the exact sum a + b does not fit 128 bits
u128_add_overflows(a, b) ==
    LET s == AddFrom(a, b, 1)
    IN  s[1] # 0 \/ ~LimbsLess(Tail(s), TwoPow128, 1)

\* a + b on u128, reduced mod 2^128 (what a build without overflow checks
\* computes; a build with overflow checks panics when u128_add_overflows).
\* a, b < 2^128 and 2^129 < 10^39, so the carry out of the top limb is 0.
u128_add(a, b) ==
    LET s == Tail(AddFrom(a, b, 1))
    IN  IF LimbsLess(s, TwoPow128, 1) THEN s
        ELSE Tail(SubFrom(s, TwoPow128, 1))

-----------------------------------------------------------------------------
(* Decimal formatting of a u64 ({} in format!).                            *)

Digit == <<"0", "1", "2", "3", "4", "5", "6", "7", "8", "9">>

DigitStr(d) == Digit[d + 1]

RECURSIVE Padded(_, _)
\* n as exactly width digits
Padded(n, width) ==
    IF width = 0 THEN ""
    ELSE Padded(n \div 10, width - 1) \o DigitStr(n % 10)

RECURSIVE Plain(_)
\* n > 0 without leading zeros
Plain(n) == IF n < 10 THEN DigitStr(n) ELSE Plain(n \div 10) \o DigitStr(n % 10)

RECURSIVE DecimalFrom(_, _, _)
\* the limbs of x from the i-th on; started: a digit has been written
DecimalFrom(x, i, started) ==
    IF i > Len(x) THEN (IF started THEN "" ELSE "0")
    ELSE IF started THEN Padded(x[i], RadixDigits) \o DecimalFrom(x, i + 1, TRUE)
    ELSE IF x[i] = 0 THEN DecimalFrom(x, i + 1, FALSE)
    ELSE Plain(x[i]) \o DecimalFrom(x, i + 1, TRUE)

u64_to_string(x) == DecimalFrom(x, 1, FALSE)

-----------------------------------------------------------------------------
(* Constants of the plugin.                                                *)

BASE_RTT_ID ==
    <<41, 598154451, 286296937, 086289020, 957009281>>
BASE_RTT_NAME == "network_rtt"
\* (mutant) a base only 5 above BASE_RTT_ID
BASE_SENT_KBPS_ID_NearRtt ==
    <<41, 598154451, 286296937, 086289020, 957009286>>
\* (mutant) a base 5 below u128::MAX
BASE_SENT_KBPS_ID_NearMax ==
    <<340, 282366920, 938463463, 374607431, 768211450>>
BASE_SENT_KBPS_ID ==
    <<90, 848304625, 986116817, 112626213, 519895727>>
BASE_SENT_KBPS_NAME == "network_sent_kbps"
BASE_RECEIVED_KBPS_ID ==
    <<31, 519729826, 609147865, 210468700, 944359742>>
BASE_RECEIVED_KBPS_NAME == "network_received_kbps"
BASE_PACKET_LOSS_ID ==
    <<74, 946797489, 629323601, 504027060, 352742281>>
BASE_PACKET_LOSS_NAME == "network_packet_loss"

\* RenetDiagnosticsPlugin::{RTT, SENT_KBPS, RECEIVED_KBPS, PACKET_LOSS}
RTT == BASE_RTT_ID
SENT_KBPS == BASE_SENT_KBPS_ID
RECEIVED_KBPS == BASE_RECEIVED_KBPS_ID
PACKET_LOSS == BASE_PACKET_LOSS_ID

\* the history length every Diagnostic::new of the plugin passes
MAX_HISTORY_LENGTH == 20

-----------------------------------------------------------------------------
(* Inputs: what the networking layer can report.                           *)

\* NetworkInfo snapshots, in hundredths (50, 12.5, 8.0, 0.01 and a second one)
Info1 == [rtt |-> 5000, sent_kbps |-> 1250, received_kbps |-> 800, packet_loss |-> 1]
Info2 == [rtt |-> 2000, sent_kbps |-> 300, received_kbps |-> 7500, packet_loss |-> 25]
Snapshots == {Info1, Info2}

\* Option<NetworkInfo>
InfoOptions == {Some(info) : info \in Snapshots} \cup {None}

\* client ids (u64) the server may list
Id0 == Zeros(U64Limbs)
Id7 == <<0, 0, 7>>
Id9 == <<0, 0, 9>>
ClientIds == {Id0, Id7, Id9}

Kinds == {"rtt", "sent_kbps", "received_kbps", "packet_loss"}

\* From<f32> for f64: every f32 is an f64, the value is kept
f64_from(x) == x

-----------------------------------------------------------------------------
(* bevy's Diagnostics, as the plugin uses it.  S is the state a system     *)
(* works on: [added_client_ids, diagnostics, calls, panicked,              *)
(* overflow_checks, by].                                                   *)

Diagnostic_new(id, name, max_history_length) ==
    [id |-> id, name |-> name, max_history_length |-> max_history_length]

\* Diagnostics::add: the series is inserted under its id, replacing a series
\* already stored under that id
Diagnostics_add(S, diagnostic) ==
    IF S.panicked THEN S
    ELSE [S EXCEPT
            !.diagnostics =
                [x \in DOMAIN S.diagnostics \cup {diagnostic.id} |->
                    IF x = diagnostic.id
                    THEN [name |-> diagnostic.name,
                          max_history_length |-> diagnostic.max_history_length]
                    ELSE S.diagnostics[x]],
            !.calls = Append(@,
                [op |-> "add", by |-> S.by, id |-> diagnostic.id,
                 name |-> diagnostic.name,
                 max_history_length |-> diagnostic.max_history_length,
                 value |-> 0,
                 known |-> diagnostic.id \in DOMAIN S.diagnostics])]

\* Diagnostics::add_measurement: the sample goes to the series stored under
\* id; known records whether there was one when the call was made
Diagnostics_add_measurement(S, id, value) ==
    IF S.panicked THEN S
    ELSE [S EXCEPT
            !.calls = Append(@,
                [op |-> "add_measurement", by |-> S.by, id |-> id,
                 name |-> "", max_history_length |-> 0,
                 value |-> value,
                 known |-> id \in DOMAIN S.diagnostics])]

-----------------------------------------------------------------------------
(* Identifier and name derivation.                                         *)

\* DiagnosticId::from_u128(base + u128::from(client_id))
client_diagnostics_id(base, client_id) == u128_add(base, u128_from(client_id))

\* evaluating base + u128::from(client_id) panics in a build with overflow
\* checks when the sum does not fit
CheckedAdd(S, base, client_id) ==
    IF ~S.panicked /\ S.overflow_checks
       /\ u128_add_overflows(base, u128_from(client_id))
    THEN [S EXCEPT !.panicked = TRUE]
    ELSE S

client_rtt_id(client_id) == client_diagnostics_id(BASE_RTT_ID, client_id)

client_sent_kbps_id(client_id) == client_diagnostics_id(BASE_SENT_KBPS_ID, client_id)

client_received_kbps_id(client_id) ==
    client_diagnostics_id(BASE_RECEIVED_KBPS_ID, client_id)

client_packet_loss_id(client_id) ==
    client_diagnostics_id(BASE_PACKET_LOSS_ID, client_id)

\* (mutant) the name without the separator
client_diagnostics_name_NoSeparator(base, client_id) ==
    base \o u64_to_string(client_id)

\* format!("{}_{}", base, client_id)
client_diagnostics_name(base, client_id) == base \o "_" \o u64_to_string(client_id)

client_rtt(client_id) ==
    Diagnostic_new(client_rtt_id(client_id),
                   client_diagnostics_name(BASE_RTT_NAME, client_id),
                   MAX_HISTORY_LENGTH)

client_sent_kbps(client_id) ==
    Diagnostic_new(client_sent_kbps_id(client_id),
                   client_diagnostics_name(BASE_SENT_KBPS_NAME, client_id),
                   MAX_HISTORY_LENGTH)

client_received_kbps(client_id) ==
    Diagnostic_new(client_received_kbps_id(client_id),
                   client_diagnostics_name(BASE_RECEIVED_KBPS_NAME, client_id),
                   MAX_HISTORY_LENGTH)

client_packet_loss(client_id) ==
    Diagnostic_new(client_packet_loss_id(client_id),
                   client_diagnostics_name(BASE_PACKET_LOSS_NAME, client_id),
                   MAX_HISTORY_LENGTH)

\* the base identifier, base name and derived identifier of a metric kind
BaseId(kind) ==
    CASE kind = "rtt" -> RTT
      [] kind = "sent_kbps" -> SENT_KBPS
      [] kind = "received_kbps" -> RECEIVED_KBPS
      [] kind = "packet_loss" -> PACKET_LOSS

BaseName(kind) ==
    CASE kind = "rtt" -> BASE_RTT_NAME
      [] kind = "sent_kbps" -> BASE_SENT_KBPS_NAME
      [] kind = "received_kbps" -> BASE_RECEIVED_KBPS_NAME
      [] kind = "packet_loss" -> BASE_PACKET_LOSS_NAME

ClientId(kind, client_id) ==
    CASE kind = "rtt" -> client_rtt_id(client_id)
      [] kind = "sent_kbps" -> client_sent_kbps_id(client_id)
      [] kind = "received_kbps" -> client_received_kbps_id(client_id)
      [] kind = "packet_loss" -> client_packet_loss_id(client_id)

BaseIds == {BaseId(k) : k \in Kinds}

-----------------------------------------------------------------------------
(* RenetDiagnosticsState.                                                  *)

\* (mutant) track_client_id without the final added_client_ids.insert
track_client_id_NoInsert(S, client_id) ==
    IF client_id \in S.added_client_ids THEN S
    ELSE LET s1 == Diagnostics_add(CheckedAdd(S, BASE_RTT_ID, client_id),
                                   client_rtt(client_id))
             s2 == Diagnostics_add(CheckedAdd(s1, BASE_SENT_KBPS_ID, client_id),
                                   client_sent_kbps(client_id))
             s3 == Diagnostics_add(CheckedAdd(s2, BASE_RECEIVED_KBPS_ID, client_id),
                                   client_received_kbps(client_id))
         IN  Diagnostics_add(CheckedAdd(s3, BASE_PACKET_LOSS_ID, client_id),
                             client_packet_loss(client_id))

\* (mutant) track_client_id without the added_client_ids.contains check
track_client_id_NoCheck(S, client_id) ==
    LET s1 == Diagnostics_add(CheckedAdd(S, BASE_RTT_ID, client_id),
                              client_rtt(client_id))
        s2 == Diagnostics_add(CheckedAdd(s1, BASE_SENT_KBPS_ID, client_id),
                              client_sent_kbps(client_id))
        s3 == Diagnostics_add(CheckedAdd(s2, BASE_RECEIVED_KBPS_ID, client_id),
                              client_received_kbps(client_id))
        s4 == Diagnostics_add(CheckedAdd(s3, BASE_PACKET_LOSS_ID, client_id),
                              client_packet_loss(client_id))
    IN  IF s4.panicked THEN s4
        ELSE [s4 EXCEPT !.added_client_ids = @ \cup {client_id}]

track_client_id(S, client_id) ==
    IF client_id \in S.added_client_ids THEN S
    ELSE LET s1 == Diagnostics_add(CheckedAdd(S, BASE_RTT_ID, client_id),
                                   client_rtt(client_id))
             s2 == Diagnostics_add(CheckedAdd(s1, BASE_SENT_KBPS_ID, client_id),
                                   client_sent_kbps(client_id))
             s3 == Diagnostics_add(CheckedAdd(s2, BASE_RECEIVED_KBPS_ID, client_id),
                                   client_received_kbps(client_id))
             s4 == Diagnostics_add(CheckedAdd(s3, BASE_PACKET_LOSS_ID, client_id),
                                   client_packet_loss(client_id))
         IN  IF s4.panicked THEN s4
             ELSE [s4 EXCEPT !.added_client_ids = @ \cup {client_id}]

-----------------------------------------------------------------------------
(* The systems of the plugin.                                              *)

setup_client_system(S0) ==
    LET S  == [S0 EXCEPT !.by = "setup_client_system"]
        s1 == Diagnostics_add(S, Diagnostic_new(RTT, BASE_RTT_NAME, MAX_HISTORY_LENGTH))
        s2 == Diagnostics_add(s1, Diagnostic_new(SENT_KBPS, BASE_SENT_KBPS_NAME,
                                                 MAX_HISTORY_LENGTH))
        s3 == Diagnostics_add(s2, Diagnostic_new(RECEIVED_KBPS, BASE_RECEIVED_KBPS_NAME,
                                                 MAX_HISTORY_LENGTH))
    IN  Diagnostics_add(s3, Diagnostic_new(PACKET_LOSS, BASE_PACKET_LOSS_NAME,
                                           MAX_HISTORY_LENGTH))

\* (mutant) diagnostic_client_system registering the RTT series itself
diagnostic_client_system_Registers(S0, info) ==
    LET S  == [S0 EXCEPT !.by = "diagnostic_client_system"]
        s0 == Diagnostics_add(S, Diagnostic_new(RTT, BASE_RTT_NAME, MAX_HISTORY_LENGTH))
        s1 == Diagnostics_add_measurement(s0, RTT, f64_from(info.rtt))
        s2 == Diagnostics_add_measurement(s1, SENT_KBPS, f64_from(info.sent_kbps))
        s3 == Diagnostics_add_measurement(s2, RECEIVED_KBPS,
                                          f64_from(info.received_kbps))
    IN  Diagnostics_add_measurement(s3, PACKET_LOSS, f64_from(info.packet_loss))

\* (mutant) diagnostic_client_system with the two throughputs crossed
diagnostic_client_system_Crossed(S0, info) ==
    LET S  == [S0 EXCEPT !.by = "diagnostic_client_system"]
        s1 == Diagnostics_add_measurement(S, RTT, f64_from(info.rtt))
        s2 == Diagnostics_add_measurement(s1, SENT_KBPS, f64_from(info.received_kbps))
        s3 == Diagnostics_add_measurement(s2, RECEIVED_KBPS, f64_from(info.sent_kbps))
    IN  Diagnostics_add_measurement(s3, PACKET_LOSS, f64_from(info.packet_loss))

\* info is client.network_info()
diagnostic_client_system(S0, info) ==
    LET S  == [S0 EXCEPT !.by = "diagnostic_client_system"]
        s1 == Diagnostics_add_measurement(S, RTT, f64_from(info.rtt))
        s2 == Diagnostics_add_measurement(s1, SENT_KBPS, f64_from(info.sent_kbps))
        s3 == Diagnostics_add_measurement(s2, RECEIVED_KBPS,
                                          f64_from(info.received_kbps))
    IN  Diagnostics_add_measurement(s3, PACKET_LOSS, f64_from(info.packet_loss))

\* server.clients_id()
clients_id(srv) == [i \in 1..Len(srv) |-> srv[i].id]

\* server.network_info(client_id)
network_info(srv, client_id) ==
    IF \E i \in 1..Len(srv) : srv[i].id = client_id
    THEN srv[CHOOSE i \in 1..Len(srv) : srv[i].id = client_id].info
    ELSE None

\* the four add_measurement calls for a client whose info is there
PushClient(S, client_id, info) ==
    LET s1 == Diagnostics_add_measurement(
                  CheckedAdd(S, BASE_RTT_ID, client_id),
                  client_rtt_id(client_id), f64_from(info.rtt))
        s2 == Diagnostics_add_measurement(
                  CheckedAdd(s1, BASE_SENT_KBPS_ID, client_id),
                  client_sent_kbps_id(client_id), f64_from(info.sent_kbps))
        s3 == Diagnostics_add_measurement(
                  CheckedAdd(s2, BASE_RECEIVED_KBPS_ID, client_id),
                  client_received_kbps_id(client_id),
                  f64_from(info.received_kbps))
    IN  Diagnostics_add_measurement(
            CheckedAdd(s3, BASE_PACKET_LOSS_ID, client_id),
            client_packet_loss_id(client_id), f64_from(info.packet_loss))

\* (mutant) the loop body with track_client_id hoisted out of the if let
ServerLoopBody_TrackAlways(S, srv, client_id) ==
    LET opt == network_info(srv, client_id)
        s0 == track_client_id(S, client_id)
    IN  IF opt = None THEN s0 ELSE PushClient(s0, client_id, Unwrap(opt))

\* (mutant) the loop body without the packet loss sample
ServerLoopBody_NoPacketLoss(S, srv, client_id) ==
    LET opt == network_info(srv, client_id)
    IN  IF opt = None THEN S
        ELSE LET info == Unwrap(opt)
                 s0 == track_client_id(S, client_id)
                 s1 == Diagnostics_add_measurement(
                           CheckedAdd(s0, BASE_RTT_ID, client_id),
                           client_rtt_id(client_id), f64_from(info.rtt))
                 s2 == Diagnostics_add_measurement(
                           CheckedAdd(s1, BASE_SENT_KBPS_ID, client_id),
                           client_sent_kbps_id(client_id), f64_from(info.sent_kbps))
             IN  Diagnostics_add_measurement(
                     CheckedAdd(s2, BASE_RECEIVED_KBPS_ID, client_id),
                     client_received_kbps_id(client_id),
                     f64_from(info.received_kbps))

\* the body of the for loop, for one client_id
ServerLoopBody(S, srv, client_id) ==
    LET opt == network_info(srv, client_id)
    IN  IF opt = None THEN S
        ELSE PushClient(track_client_id(S, client_id), client_id, Unwrap(opt))

RECURSIVE ServerLoop_BreakOnAbsent(_, _, _, _)
\* (mutant) the for loop leaving at the first client without network info
ServerLoop_BreakOnAbsent(S, srv, ids, i) ==
    IF i > Len(ids) THEN S
    ELSE IF network_info(srv, ids[i]) = None THEN S
    ELSE ServerLoop_BreakOnAbsent(ServerLoopBody(S, srv, ids[i]), srv, ids, i + 1)

RECURSIVE ServerLoop(_, _, _, _)
\* the for loop over ids, from its i-th element on
ServerLoop(S, srv, ids, i) ==
    IF i > Len(ids) THEN S
    ELSE ServerLoop(ServerLoopBody(S, srv, ids[i]), srv, ids, i + 1)

\* (mutant) the server system forgetting the clients no longer connected
diagnostic_server_system_Prune(S0, srv) ==
    LET T == ServerLoop([S0 EXCEPT !.by = "diagnostic_server_system"], srv,
                        clients_id(srv), 1)
    IN  [T EXCEPT !.added_client_ids = @ \cap {srv[i].id : i \in 1..Len(srv)}]

diagnostic_server_system(S0, srv) ==
    ServerLoop([S0 EXCEPT !.by = "diagnostic_server_system"], srv, clients_id(srv), 1)

\* has_resource::<T>
has_resource(resource) == resource # None

-----------------------------------------------------------------------------
(* The app: RenetDiagnosticsPlugin::build, the startup stage, the update   *)
(* ticks, and the rest of the app changing the resources between them.     *)

Quiet(action) ==
    [action |-> action, ran_setup |-> FALSE, ran_client |-> FALSE, ran_server |-> FALSE]

\* the state a system starts from; checks: the build has overflow checks
\* (a build without them gives the same run unless an addition overflows)
Enter(checks) ==
    [added_client_ids |-> added_client_ids, diagnostics |-> diagnostics,
     calls |-> <<>>, panicked |-> FALSE, overflow_checks |-> checks, by |-> ""]

\* the state a step leaves behind
Leave(S) ==
    /\ added_client_ids' = S.added_client_ids
    /\ diagnostics' = S.diagnostics
    /\ calls' = S.calls
    /\ panicked' = S.panicked

\* build: insert_resource(RenetDiagnosticsState::default()); no RenetClient
\* or RenetServer yet, nothing registered with Diagnostics
Init ==
    /\ phase = "build"
    /\ client = None
    /\ server = None
    /\ added_client_ids = {}
    /\ diagnostics = <<>>
    /\ calls = <<>>
    /\ last = Quiet("build")
    /\ panicked = FALSE
    /\ probe = None

\* add_startup_system(setup_client_system.with_run_criteria(has_resource::<RenetClient>)):
\* the startup stage runs once, and setup_client_system runs in it only if
\* RenetClient is there at that moment
Startup ==
    /\ ~panicked
    /\ phase = "build"
    /\ phase' = "running"
    /\ Leave(IF has_resource(client) THEN setup_client_system(Enter(FALSE))
             ELSE Enter(FALSE))
    /\ last' = [Quiet("startup") EXCEPT !.ran_setup = has_resource(client)]
    /\ UNCHANGED <<client, server, probe>>

\* (mutant) run criteria that exclude each other: the server system does not
\* run while RenetClient is there
RunSystems_Exclusive(S, order) ==
    IF has_resource(client) THEN diagnostic_client_system(S, Unwrap(client))
    ELSE IF has_resource(server) THEN diagnostic_server_system(S, Unwrap(server))
    ELSE S

\* the two systems of a tick, in the order the stage executor picks
RunSystems(S, order) ==
    LET ClientPart(T) == IF has_resource(client) /\ ~T.panicked
                         THEN diagnostic_client_system(T, Unwrap(client)) ELSE T
        ServerPart(T) == IF has_resource(server) /\ ~T.panicked
                         THEN diagnostic_server_system(T, Unwrap(server)) ELSE T
    IN  IF order = "client_first" THEN ServerPart(ClientPart(S))
        ELSE ClientPart(ServerPart(S))

\* the orders in which the executor can run the systems that run this tick
Orders ==
    IF has_resource(client) /\ has_resource(server)
    THEN {"client_first", "server_first"}
    ELSE {"client_first"}

\* one update: add_system(diagnostic_client_system.with_run_criteria(has_resource::<RenetClient>))
\* and add_system(diagnostic_server_system.with_run_criteria(has_resource::<RenetServer>))
Tick ==
    /\ ~panicked
    /\ phase = "running"
    /\ \E order \in Orders :
          LET T == RunSystems(Enter(TRUE), order)
          IN  \E checks \in (IF T.panicked THEN BOOLEAN ELSE {TRUE}) :
                 Leave(IF checks THEN T ELSE RunSystems(Enter(FALSE), order))
    /\ last' = [Quiet("tick") EXCEPT !.ran_client = has_resource(client),
                                     !.ran_server = has_resource(server)]
    /\ UNCHANGED <<phase, client, server, probe>>

\* a step of the rest of the app: no call to Diagnostics, plugin state untouched
Env ==
    /\ ~panicked
    /\ calls' = <<>>
    /\ last' = Quiet("env")
    /\ UNCHANGED <<phase, added_client_ids, diagnostics, panicked, probe>>

InsertClient ==
    /\ client = None
    /\ \E info \in Snapshots : client' = Some(info)
    /\ Env
    /\ UNCHANGED server

\* the connection's statistics change
UpdateClient ==
    /\ client # None
    /\ \E info \in Snapshots \ {Unwrap(client)} : client' = Some(info)
    /\ Env
    /\ UNCHANGED server

RemoveClient ==
    /\ client # None
    /\ client' = None
    /\ Env
    /\ UNCHANGED server

InsertServer ==
    /\ server = None
    /\ server' = Some(<<>>)
    /\ Env
    /\ UNCHANGED client

RemoveServer ==
    /\ server # None
    /\ server' = None
    /\ Env
    /\ UNCHANGED client

\* a client connects; clients_id() may list it anywhere
ConnectClient ==
    /\ server # None
    /\ LET srv == Unwrap(server)
       IN  /\ Len(srv) < MaxClients
           /\ \E id \in ClientIds, info \in InfoOptions, pos \in 1..(Len(srv) + 1) :
                 /\ \A i \in 1..Len(srv) : srv[i].id # id
                 /\ server' = Some(SubSeq(srv, 1, pos - 1)
                                   \o <<[id |-> id, info |-> info]>>
                                   \o SubSeq(srv, pos, Len(srv)))
    /\ Env
    /\ UNCHANGED client

DisconnectClient ==
    /\ server # None
    /\ LET srv == Unwrap(server)
       IN  \E pos \in 1..Len(srv) :
              server' = Some(SubSeq(srv, 1, pos - 1) \o SubSeq(srv, pos + 1, Len(srv)))
    /\ Env
    /\ UNCHANGED client

\* a connected client's statistics appear, change or disappear
UpdateClientInfo ==
    /\ server # None
    /\ LET srv == Unwrap(server)
       IN  \E pos \in 1..Len(srv), info \in InfoOptions :
              /\ info # srv[pos].info
              /\ server' = Some([srv EXCEPT ![pos].info = info])
    /\ Env
    /\ UNCHANGED client

Next ==
    \/ Startup
    \/ Tick
    \/ InsertClient
    \/ UpdateClient
    \/ RemoveClient
    \/ InsertServer
    \/ RemoveServer
    \/ ConnectClient
    \/ DisconnectClient
    \/ UpdateClientInfo

Spec == Init /\ [][Next]_vars

-----------------------------------------------------------------------------
(* Identifier derivation on its own: pairs of (kind, client id) over a     *)
(* wider set of 64-bit client ids.                                         *)

ProbeIds ==
    ClientIds
    \cup {<<0, a, b>> : a \in {0, 1, 999999999}, b \in {0, 1, 5, 999999999}}
    \cup {U64Max, <<18, 446744073, 709551614>>, <<9, 223372036, 854775808>>}

Derive ==
    /\ probe = None
    /\ \E k1 \in Kinds, k2 \in Kinds, c1 \in ProbeIds, c2 \in ProbeIds :
          probe' = Some([k1 |-> k1, c1 |-> c1, id1 |-> ClientId(k1, c1),
                    k2 |-> k2, c2 |-> c2, id2 |-> ClientId(k2, c2)])
    /\ UNCHANGED <<phase, client, server, added_client_ids, diagnostics, calls,
                   last, panicked>>

NextIds == Derive

SpecIds == Init /\ [][NextIds]_vars

-----------------------------------------------------------------------------
(* Vocabulary of the properties.                                           *)

Count(seq, Test(_)) == Cardinality({i \in 1..Len(seq) : Test(seq[i])})

IsAdd(r) == r.op = "add"
IsPush(r) == r.op = "add_measurement"
ByServer(r) == r.by = "diagnostic_server_system"
ByClient(r) == r.by = "diagnostic_client_system"
BySetup(r) == r.by = "setup_client_system"

\* the four derived identifiers of a client
Derived(client_id) == {ClientId(k, client_id) : k \in Kinds}

\* the field of a snapshot that belongs to a metric kind
Field(info, kind) ==
    CASE kind = "rtt" -> info.rtt
      [] kind = "sent_kbps" -> info.sent_kbps
      [] kind = "received_kbps" -> info.received_kbps
      [] kind = "packet_loss" -> info.packet_loss

\* the connected clients of srv, those with and those without network info
Connected(srv) == {srv[i].id : i \in 1..Len(srv)}
Present(srv) == {srv[i].id : i \in {j \in 1..Len(srv) : srv[j].info # None}}
Absent(srv) == Connected(srv) \ Present(srv)

\* the last step was a tick in which diagnostic_server_system ran
ServerTicked == last.action = "tick" /\ last.ran_server
\* the last step was a tick in which diagnostic_client_system ran
ClientTicked == last.action = "tick" /\ last.ran_client

-----------------------------------------------------------------------------
(* C1 - C10.                                                               *)

\* C1: no derived identifier base(k) + c of a client whose series are
\* registered equals one of the four single-connection base identifiers
\* (any client id, 0 included).
C1_DerivedNeverBase ==
    \A c \in added_client_ids : \A k \in Kinds : ClientId(k, c) \notin BaseIds

\* C2: every sample pushed to an identifier is preceded by a registration of
\* that identifier, whenever the connection resource appears (at startup or
\* later).
C2_RegisteredBeforePush ==
    \A i \in 1..Len(calls) : IsPush(calls[i]) => calls[i].known

\* C3: added_client_ids never loses an id; an id enters it exactly in a server
\* tick that finds network info present for it while it is not yet in the
\* set, and that step is the only one that registers the id's series.
C3_RegisteredOnceNeverReversed ==
    [][ /\ added_client_ids \subseteq added_client_ids'
        /\ added_client_ids' \ added_client_ids =
              IF last'.action = "tick" /\ last'.ran_server
              THEN Present(Unwrap(server)) \ added_client_ids
              ELSE {}
        /\ \A c \in ClientIds :
              (\E i \in 1..Len(calls') :
                  /\ IsAdd(calls'[i]) /\ ByServer(calls'[i])
                  /\ calls'[i].id \in Derived(c))
              <=> c \in added_client_ids' \ added_client_ids
      ]_vars

\* a server tick has passed over a registered client that is not connected or
\* has no info, and the client is still registered
C3_Witness ==
    /\ ServerTicked
    /\ \E c \in added_client_ids : c \notin Present(Unwrap(server))
    /\ \E c \in added_client_ids : c \in Absent(Unwrap(server))

\* C4: track_client_id is idempotent: a second call with the same client id
\* leaves added_client_ids and the catalog as the first call left them and
\* issues no call to Diagnostics; the first call issues the four
\* registrations unless the id was already tracked.
C4_TrackIdempotent ==
    \A c \in ClientIds :
        LET S == [Enter(TRUE) EXCEPT !.by = "diagnostic_server_system"]
            once == track_client_id(S, c)
            twice == track_client_id(once, c)
        IN  /\ twice.added_client_ids = once.added_client_ids
            /\ twice.diagnostics = once.diagnostics
            /\ twice.calls = once.calls
            /\ c \in once.added_client_ids
            /\ Len(once.calls) = IF c \in added_client_ids THEN 0 ELSE 4

\* a server tick called track_client_id for a client tracked by an earlier
\* tick: the client is sampled, nothing is registered
C4_Witness ==
    /\ ServerTicked
    /\ \E c \in Present(Unwrap(server)) :
          /\ c \in added_client_ids
          /\ Count(calls, LAMBDA r : IsPush(r) /\ ByServer(r) /\ r.id \in Derived(c)) = 4
    /\ Count(calls, IsAdd) = 0

\* C5: no registration call is issued for an identifier that is already in
\* the catalog.
C5_NoDuplicateRegistration ==
    \A i \in 1..Len(calls) : IsAdd(calls[i]) => ~calls[i].known

\* C6 (as claimed): in no tick do both diagnostic_client_system and
\* diagnostic_server_system run.
C6_MutuallyExclusive ==
    ~(Count(calls, ByClient) > 0 /\ Count(calls, ByServer) > 0)

\* C6 (amended): each sampling system is gated by its own resource alone: in
\* a tick diagnostic_client_system runs iff RenetClient is there and
\* diagnostic_server_system samples every client with info iff RenetServer is
\* there; the two exclude each other only when at most one resource is there.
C6_EachGatedByOwnResource ==
    last.action = "tick" =>
        /\ Count(calls, ByClient) = IF has_resource(client) THEN 4 ELSE 0
        /\ Count(calls, LAMBDA r : IsPush(r) /\ ByServer(r)) =
              IF has_resource(server)
              THEN 4 * Cardinality(Present(Unwrap(server))) ELSE 0
        /\ last.ran_client = has_resource(client)
        /\ last.ran_server = has_resource(server)

\* a tick in which both systems pushed samples
C6_Witness ==
    /\ last.action = "tick"
    /\ has_resource(client) /\ has_resource(server)
    /\ Count(calls, ByClient) = 4
    /\ Count(calls, LAMBDA r : IsPush(r) /\ ByServer(r)) >= 4

\* C7: two distinct (metric kind, client id) pairs have distinct derived
\* identifiers, with the four base constants of the plugin.
C7_DerivedIdsDistinct ==
    probe # None =>
        LET p == Unwrap(probe)
        IN  (p.k1 # p.k2 \/ p.c1 # p.c2) => p.id1 # p.id2

\* two kinds and two client ids, one of them the largest u64
C7_Witness ==
    /\ probe # None
    /\ Unwrap(probe).k1 # Unwrap(probe).k2
    /\ Unwrap(probe).c1 = U64Max
    /\ Unwrap(probe).c2 = Id0
    /\ Unwrap(probe).id1 # Unwrap(probe).id2

\* C8: a server tick skips a connected client without network info: the
\* server system pushes no sample to and registers none of its derived
\* identifiers, nothing panics, the client is in added_client_ids after the
\* tick iff it was before, and every client with info gets its four samples.
C8_AbsentInfoSkipped ==
    [][ (last'.action = "tick" /\ last'.ran_server) =>
           /\ ~panicked'
           /\ \A c \in Absent(Unwrap(server)) :
                 /\ Count(calls', LAMBDA r : ByServer(r) /\ r.id \in Derived(c)) = 0
                 /\ (c \in added_client_ids') = (c \in added_client_ids)
           /\ \A c \in Present(Unwrap(server)) :
                 Count(calls', LAMBDA r : /\ IsPush(r) /\ ByServer(r)
                                          /\ r.id \in Derived(c)) = 4
      ]_vars

\* a server tick over a registered client without info, listed beside a
\* client with info that got its four samples
C8_Witness ==
    /\ ServerTicked
    /\ \E c \in Absent(Unwrap(server)) : c \in added_client_ids
    /\ \E c \in Present(Unwrap(server)) :
          Count(calls, LAMBDA r : IsPush(r) /\ ByServer(r) /\ r.id \in Derived(c)) = 4

\* C9: a server tick pushes, for every connected client with info, exactly
\* one sample per metric kind to that client's derived identifier of that
\* kind, carrying that field of its info (4 * |P| samples in all), and issues
\* exactly 4 registrations for each such client not yet in added_client_ids
\* and none for the others.
C9_ServerTickCounts ==
    [][ (last'.action = "tick" /\ last'.ran_server) =>
           LET srv == Unwrap(server)
               P == Present(srv)
           IN  /\ Count(calls', LAMBDA r : IsPush(r) /\ ByServer(r))
                     = 4 * Cardinality(P)
               /\ Count(calls', LAMBDA r : IsAdd(r) /\ ByServer(r))
                     = 4 * Cardinality(P \ added_client_ids)
               /\ \A c \in P : \A k \in Kinds :
                     /\ Count(calls', LAMBDA r : /\ IsPush(r) /\ ByServer(r)
                                                 /\ r.id = ClientId(k, c)
                                                 /\ r.value = Field(Unwrap(network_info(srv, c)), k)) = 1
                     /\ Count(calls', LAMBDA r : /\ IsAdd(r) /\ ByServer(r)
                                                 /\ r.id = ClientId(k, c))
                           = IF c \in added_client_ids THEN 0 ELSE 1
      ]_vars

\* clients 7 and 9, both with info, in their first tick: 8 registrations and
\* 8 samples
C9_Witness ==
    /\ ServerTicked
    /\ Present(Unwrap(server)) = {Id7, Id9}
    /\ Count(calls, LAMBDA r : IsAdd(r) /\ ByServer(r)) = 8
    /\ Count(calls, LAMBDA r : IsPush(r) /\ ByServer(r)) = 8

\* C10: setup_client_system registers exactly the 4 base identifiers, and a
\* tick of diagnostic_client_system pushes exactly 4 samples, to each base
\* identifier the field of the snapshot that belongs to its kind.
C10_SingleConnection ==
    /\ (last.action = "startup" /\ last.ran_setup) =>
          /\ Len(calls) = 4
          /\ \A k \in Kinds :
                Count(calls, LAMBDA r : /\ IsAdd(r) /\ BySetup(r)
                                        /\ r.id = BaseId(k) /\ r.name = BaseName(k)
                                        /\ r.max_history_length = MAX_HISTORY_LENGTH) = 1
    /\ ClientTicked =>
          /\ Count(calls, ByClient) = 4
          /\ \A k \in Kinds :
                Count(calls, LAMBDA r : /\ IsPush(r) /\ ByClient(r)
                                        /\ r.id = BaseId(k)
                                        /\ r.value = Field(Unwrap(client), k)) = 1

\* the first sampling tick of a connection registered at startup, with the
\* snapshot {rtt: 50, sentKbps: 12.5, receivedKbps: 8.0, packetLoss: 0.01}
C10_Witness ==
    /\ ClientTicked
    /\ client = Some(Info1)
    /\ BaseIds \subseteq DOMAIN diagnostics
    /\ Count(calls, LAMBDA r : IsPush(r) /\ ByClient(r) /\ r.known) = 4

-----------------------------------------------------------------------------
(* C11 - C15.                                                              *)

\* the orderings of a client list
Orderings(srv) ==
    {[i \in 1..Len(srv) |-> srv[p[i]]] :
        p \in {q \in [1..Len(srv) -> 1..Len(srv)] :
                  \A i, j \in 1..Len(srv) : q[i] = q[j] => i = j}}

\* the values a run pushed to id, in the order it pushed them
SamplesTo(T, id) ==
    LET pushes == SelectSeq(T.calls, LAMBDA r : IsPush(r) /\ r.id = id)
    IN  [i \in 1..Len(pushes) |-> pushes[i].value]

\* C11: a server tick gives the same added_client_ids, the same catalog of
\* registered series and the same samples per identifier whatever the order
\* in which clients_id() lists the connected clients.
C11_OrderIndependent ==
    has_resource(server) =>
        LET srv == Unwrap(server)
            T == diagnostic_server_system(Enter(TRUE), srv)
        IN  \A other \in Orderings(srv) :
                LET U == diagnostic_server_system(Enter(TRUE), other)
                IN  /\ U.added_client_ids = T.added_client_ids
                    /\ U.diagnostics = T.diagnostics
                    /\ U.panicked = T.panicked
                    /\ \A c \in ClientIds : \A k \in Kinds :
                          SamplesTo(U, ClientId(k, c)) = SamplesTo(T, ClientId(k, c))

\* a server tick over two clients, one with info and new, listed after one
\* without info, so the tick skipped the first and went on to the second
C11_Witness ==
    /\ ServerTicked
    /\ Len(Unwrap(server)) = 2
    /\ Unwrap(server)[1].info = None
    /\ Unwrap(server)[2].info # None
    /\ Count(calls, LAMBDA r : IsAdd(r) /\ ByServer(r)) = 4
    /\ Count(calls, LAMBDA r : IsPush(r) /\ ByServer(r)) = 4

\* C12: base + u128::from(client_id) never exceeds 2^128 - 1, for each of the
\* four base constants and every u64 client id (the largest included), so
\* client_diagnostics_id yields the exact sum and cannot panic on overflow.
C12_AdditionNeverOverflows ==
    /\ \A k \in Kinds : ~u128_add_overflows(BaseId(k), u128_from(U64Max))
    /\ probe # None =>
          LET p == Unwrap(probe)
              exact == AddFrom(BaseId(p.k1), u128_from(p.c1), 1)
          IN  /\ ~u128_add_overflows(BaseId(p.k1), u128_from(p.c1))
              /\ exact[1] = 0
              /\ LimbsLess(Tail(exact), TwoPow128, 1)
              /\ p.id1 = Tail(exact)

\* the largest base with the largest client id:
\* 90848304625986116817112626213519895727 + 18446744073709551615
C12_Witness ==
    /\ probe # None
    /\ Unwrap(probe).k1 = "sent_kbps"
    /\ Unwrap(probe).c1 = U64Max
    /\ Unwrap(probe).id1 = <<90, 848304625, 986116835, 559370287, 229447342>>

\* the display names as the specification writes them, for the client ids of
\* the model
KindLabel(kind) ==
    CASE kind = "rtt" -> "network_rtt"
      [] kind = "sent_kbps" -> "network_sent_kbps"
      [] kind = "received_kbps" -> "network_received_kbps"
      [] kind = "packet_loss" -> "network_packet_loss"

DecimalOf(client_id) ==
    CASE client_id = Id0 -> "0"
      [] client_id = Id7 -> "7"
      [] client_id = Id9 -> "9"

ExpectedName(kind, client_id) == KindLabel(kind) \o "_" \o DecimalOf(client_id)

\* C13: the display name of (kind, client id) is the kind's base name, "_",
\* and the client id in decimal (RTT and 42 give "network_rtt_42"), and every
\* series track_client_id registers carries, for some kind and client, that
\* name, the derived identifier of the same kind and client, and capacity 20.
C13_DisplayNames ==
    /\ client_diagnostics_name(BASE_RTT_NAME, <<0, 0, 42>>) = "network_rtt_42"
    /\ client_diagnostics_name(BASE_SENT_KBPS_NAME, <<0, 1, 5>>)
          = "network_sent_kbps_1000000005"
    /\ client_diagnostics_name(BASE_PACKET_LOSS_NAME, U64Max)
          = "network_packet_loss_18446744073709551615"
    /\ \A i \in 1..Len(calls) :
          (IsAdd(calls[i]) /\ ByServer(calls[i])) =>
              \E c \in ClientIds : \E k \in Kinds :
                  /\ calls[i].id = ClientId(k, c)
                  /\ calls[i].name = ExpectedName(k, c)
                  /\ calls[i].max_history_length = 20
                  /\ diagnostics[ClientId(k, c)] =
                        [name |-> ExpectedName(k, c), max_history_length |-> 20]

\* a server tick registered client 7: its RTT series is "network_rtt_7" under
\* 41598154451286296937086289020957009281 + 7
C13_Witness ==
    /\ ServerTicked
    /\ \E i \in 1..Len(calls) :
          /\ IsAdd(calls[i]) /\ ByServer(calls[i])
          /\ calls[i].id = <<41, 598154451, 286296937, 086289020, 957009288>>
          /\ calls[i].name = "network_rtt_7"
          /\ calls[i].max_history_length = 20

\* the catalog holds the series track_client_id registers for (kind, client)
HasClientSeries(kind, client_id) ==
    /\ ClientId(kind, client_id) \in DOMAIN diagnostics
    /\ diagnostics[ClientId(kind, client_id)].name = ExpectedName(kind, client_id)

\* C14: in every state a client id is in added_client_ids iff all four of
\* its series are in the catalog; a client outside the set has none of them.
C14_SetAgreesWithCatalog ==
    \A c \in ClientIds :
        /\ c \in added_client_ids => \A k \in Kinds : HasClientSeries(k, c)
        /\ c \notin added_client_ids => \A k \in Kinds : ~HasClientSeries(k, c)

\* after a server tick: one client registered with its four series, another
\* connected without info, outside the set and without series
C14_Witness ==
    /\ ServerTicked
    /\ \E c \in added_client_ids : \A k \in Kinds : HasClientSeries(k, c)
    /\ \E c \in Absent(Unwrap(server)) :
          /\ c \notin added_client_ids
          /\ \A k \in Kinds : ~HasClientSeries(k, c)

\* C15: a tick of diagnostic_client_system issues no registration and only
\* pushes to the four base identifiers, so a tick in which it alone runs
\* leaves added_client_ids and the catalog unchanged; a server tick in which
\* every connected client is already in added_client_ids issues no
\* registration and leaves both unchanged too.
C15_SamplingLeavesRegistry ==
    [][ last'.action = "tick" =>
           /\ \A i \in 1..Len(calls') :
                 ByClient(calls'[i]) =>
                     IsPush(calls'[i]) /\ calls'[i].id \in BaseIds
           /\ (last'.ran_client /\ ~last'.ran_server) =>
                 /\ added_client_ids' = added_client_ids
                 /\ diagnostics' = diagnostics
                 /\ Count(calls', IsAdd) = 0
           /\ (last'.ran_server /\ Connected(Unwrap(server)) \subseteq added_client_ids) =>
                 /\ added_client_ids' = added_client_ids
                 /\ diagnostics' = diagnostics
                 /\ Count(calls', IsAdd) = 0
      ]_vars

\* a tick of both systems over clients registered by an earlier tick: samples
\* from both, no registration
C15_Witness ==
    /\ ClientTicked
    /\ ServerTicked
    /\ Present(Unwrap(server)) # {}
    /\ Connected(Unwrap(server)) \subseteq added_client_ids
    /\ Count(calls, ByClient) = 4
    /\ Count(calls, LAMBDA r : IsPush(r) /\ ByServer(r)) >= 4
    /\ Count(calls, IsAdd) = 0

====
